---- MODULE Spec2Model ----
(***************************************************************************)
(* Model of azure-openai-proxy: the load balancer                          *)
(* (loadbalancer/balancer.go) and the request handlers (handlers/proxy.go) *)
(* with their failover loop, for one configured model name.                *)
(*                                                                         *)
(* Backends are the indices 0..n-1 of ModelBalancer.backends.  Time is the *)
(* wall clock in seconds, read every TickInterval seconds.  The uint64     *)
(* rotation cursor is kept at its full width as four 16-bit limbs, most    *)
(* significant first.                                                      *)
(*                                                                         *)
(* Spec           inbound requests running proxyWithModel                  *)
(* SpecFront      inbound requests from handleOpenAIRequest on             *)
(* SpecLB         callers of GetNext, step by step, beside direct marks    *)
(* SpecHealth     direct marks, the clock and the recovery sweep           *)
(* SpecHealthFair SpecHealth with the ticker and the clock kept running    *)
(* SpecTransform  transformRequestBody applied to request bodies           *)
(* SpecStream     handleStreamResponse, step by step                       *)
(***************************************************************************)
EXTENDS Integers, Sequences, FiniteSets, TLC

\* ---------------------------------------------------------------- bounds
MaxBackends == 3      \* largest configured pool
MaxAttemptsCfg == 3   \* largest configured retry.max_attempts
NumReq == 1           \* inbound requests in flight at once
MaxRequests == 2      \* inbound requests accepted in one behaviour
MaxFail == 2          \* cap on FailCount
MaxTime == 50         \* the clock stops here
NumCallers == 2       \* concurrent callers of GetNext
MaxCalls == 3         \* GetNext calls started in one behaviour
MaxMarks == 2         \* direct MarkUnhealthy/MarkHealthy calls in one behaviour
MaxFields == 3        \* members of a request body
MaxPasses == 2        \* applications of transformRequestBody to one body
MaxChunks == 3        \* reads that a backend's streamed body takes

\* ------------------------------------------------------ program constants
defaultRecoveryTimeout == 30
TickInterval == 10
LimbBase == 65536
maxBodySize == 10485760   \* 10 * 1024 * 1024

VARIABLES
    n,            \* len(balancer.backends)
    maxAttempts,  \* cfg.Retry.MaxAttempts
    badEndpoint,  \* backends whose Endpoint makes http.NewRequestWithContext fail
    healthy,      \* BackendStatus.Healthy, per backend
    lastChecked,  \* BackendStatus.LastChecked, per backend (0 = zero time)
    failCount,    \* BackendStatus.FailCount, per backend
    current,      \* ModelBalancer.current
    now,          \* time.Now()
    req,          \* the inbound requests: position and locals of proxyWithModel
    accepted,     \* number of inbound requests accepted so far
    served,       \* history: backends whose response was relayed, in order
    anyFailure,   \* history: some attempt failed or some request was cancelled
    gn,           \* the callers of GetNext: position and locals
    calls,        \* number of GetNext calls started so far
    rets,         \* history: backends returned by GetNext, in order of return
                  \* (only the last one once calls overlap or a backend failed)
    stable,       \* history: per caller, backends healthy ever since its call began
    overlap,      \* history: two GetNext calls were in progress at once
    everUnhealthy,\* history: some backend has been unhealthy
    wrapped,      \* history: the cursor has wrapped from 2^64 - 1 to 0
    marks,        \* number of direct MarkUnhealthy/MarkHealthy calls so far
    sick,         \* history: per caller, every backend unhealthy ever since its call began
    inbound,      \* the inbound HTTP request a handler was entered with
    xf,           \* a request body and what transformRequestBody makes of it
    stream,       \* handleStreamResponse: position, bytes read and written
    locks,        \* lb.mu and balancer.mu: the writer in Lock, the readers in RLock
    task          \* the goroutines inside the load balancer: operation and position

vars == <<n, maxAttempts, badEndpoint, healthy, lastChecked, failCount,
          current, now, req, accepted, served, anyFailure,
          gn, calls, rets, stable, overlap, everUnhealthy, wrapped,
          marks, sick, inbound, xf, stream, locks, task>>

reqVars == <<req, accepted, served, anyFailure>>
gnVars == <<gn, calls, rets, overlap, wrapped, marks>>
noteVars == <<stable, everUnhealthy>>

cfgVars == <<n, maxAttempts, badEndpoint>>
healthVars == <<healthy, lastChecked, failCount>>
ioVars == <<inbound, xf, stream>>
lockVars == <<locks, task>>

Backends == 0 .. (n - 1)
Requests == 1 .. NumReq
Callers == 1 .. NumCallers

Min(a, b) == IF a < b THEN a ELSE b
Last(s) == s[Len(s)]

\* ------------------------------------------------------- uint64 cursor
ZeroCursor == <<0, 0, 0, 0>>
TopCursor == <<LimbBase - 1, LimbBase - 1, LimbBase - 1, LimbBase - 1>>

\* Cursor values the pool starts a behaviour with: fresh, and three
\* increments short of the uint64 wrap.
CursorStarts ==
    {ZeroCursor, <<LimbBase - 1, LimbBase - 1, LimbBase - 1, LimbBase - 3>>}

\* An increment that is lost.
CursorInc_Lost(c) == c

\* c + 1 modulo 2^64 (atomic.AddUint64(&current, 1))
CursorInc(c) ==
    IF c[4] < LimbBase - 1 THEN <<c[1], c[2], c[3], c[4] + 1>>
    ELSE IF c[3] < LimbBase - 1 THEN <<c[1], c[2], c[3] + 1, 0>>
    ELSE IF c[2] < LimbBase - 1 THEN <<c[1], c[2] + 1, 0, 0>>
    ELSE IF c[1] < LimbBase - 1 THEN <<c[1] + 1, 0, 0, 0>>
    ELSE ZeroCursor

\* c % m for a uint64 c and 0 < m
CursorMod(c, m) ==
    LET r1 == c[1] % m
        r2 == (r1 * LimbBase + c[2]) % m
        r3 == (r2 * LimbBase + c[3]) % m
    IN  (r3 * LimbBase + c[4]) % m

\* ------------------------------------------------- load balancer operations
\* GetAllBackends that leaves out the backends flagged unhealthy.
GetAllBackends_HealthyOnly ==
    IF n = 0 THEN << >>
    ELSE LET startIdx == CursorMod(current, n)
             IsHealthy(b) == healthy[b]
         IN  SelectSeq([k \in 1 .. n |-> (startIdx + (k - 1)) % n], IsHealthy)

\* GetAllBackends: the whole pool from current % n on, wrapping around.
GetAllBackends ==
    IF n = 0 THEN << >>
    ELSE LET startIdx == CursorMod(current, n)
         IN  [k \in 1 .. n |-> (startIdx + (k - 1)) % n]

\* MarkUnhealthy that forgets to count the failure.
MarkUnhealthy_NoCount(b) ==
    /\ healthy' = [healthy EXCEPT ![b] = FALSE]
    /\ lastChecked' = [lastChecked EXCEPT ![b] = now]
    /\ failCount' = failCount

\* MarkUnhealthy that forgets to clear the flag.
MarkUnhealthy_KeepsFlag(b) ==
    /\ healthy' = healthy
    /\ lastChecked' = [lastChecked EXCEPT ![b] = now]
    /\ failCount' = [failCount EXCEPT ![b] = failCount[b] + 1]

MarkUnhealthy(b) ==
    /\ healthy' = [healthy EXCEPT ![b] = FALSE]
    /\ lastChecked' = [lastChecked EXCEPT ![b] = now]
    /\ failCount' = [failCount EXCEPT ![b] = failCount[b] + 1]

\* MarkHealthy that stamps LastChecked only when it flips the flag.
MarkHealthy_StampsFlipOnly(b) ==
    /\ healthy' = [healthy EXCEPT ![b] = TRUE]
    /\ lastChecked' = [lastChecked EXCEPT ![b] = IF healthy[b] THEN lastChecked[b]
                                                  ELSE now]
    /\ failCount' = [failCount EXCEPT ![b] = 0]

\* MarkHealthy that forgets to reset the counter.
MarkHealthy_KeepsCount(b) ==
    /\ healthy' = [healthy EXCEPT ![b] = TRUE]
    /\ lastChecked' = [lastChecked EXCEPT ![b] = now]
    /\ failCount' = failCount

MarkHealthy(b) ==
    /\ healthy' = [healthy EXCEPT ![b] = TRUE]
    /\ lastChecked' = [lastChecked EXCEPT ![b] = now]
    /\ failCount' = [failCount EXCEPT ![b] = 0]

\* History kept beside MarkUnhealthy: b stops counting as healthy throughout
\* for the GetNext calls in progress.
NoteUnhealthy(b) ==
    /\ everUnhealthy' = TRUE
    /\ stable' = [c \in Callers |->
                    IF gn[c].pc \in {"add", "read"} THEN stable[c] \ {b}
                    ELSE stable[c]]
    /\ sick' = sick

\* History kept beside MarkHealthy and the sweep: once a backend of S is
\* healthy, the GetNext calls in progress have not seen the pool all
\* unhealthy throughout.
NoteHealthy(S) ==
    sick' = [c \in Callers |->
                IF gn[c].pc \in {"add", "read"} THEN sick[c] /\ S = {}
                ELSE sick[c]]

\* A recovery test that has lost its negation.
Recovered_HealthyOnly(b) == healthy[b] /\ now - lastChecked[b] > defaultRecoveryTimeout

\* A pass of the sweep that also clears the failure counts.
Sweep_ResetsCount ==
    /\ \E b \in Backends : ~healthy[b]
    /\ healthy' = [b \in Backends |->
                      IF ~healthy[b] /\ now - lastChecked[b] > defaultRecoveryTimeout
                      THEN TRUE ELSE healthy[b]]
    /\ failCount' = [b \in Backends |->
                      IF ~healthy[b] /\ now - lastChecked[b] > defaultRecoveryTimeout
                      THEN 0 ELSE failCount[b]]
    /\ sick' = sick
    /\ UNCHANGED <<gnVars, noteVars, cfgVars, lockVars, ioVars, lastChecked, current, now, req,
                   accepted, served, anyFailure>>

\* One pass of the StartHealthCheck ticker loop over the pool.
Recovered(b) == ~healthy[b] /\ now - lastChecked[b] > defaultRecoveryTimeout

Sweep ==
    /\ \E b \in Backends : ~healthy[b]
    /\ healthy' = [b \in Backends |-> IF Recovered(b) THEN TRUE ELSE healthy[b]]
    /\ NoteHealthy({b \in Backends : Recovered(b)})
    /\ UNCHANGED <<gnVars, noteVars, cfgVars, lockVars, ioVars, lastChecked, failCount, current, now, req,
                   accepted, served, anyFailure>>

Tick ==
    /\ now + TickInterval <= MaxTime
    /\ now' = now + TickInterval
    /\ UNCHANGED <<gnVars, noteVars, sick, cfgVars, lockVars, ioVars, healthVars, current, req, accepted, served,
                   anyFailure>>

\* ------------------------------------------------------------ dispatcher
IdleReq ==
    [pc |-> "idle", backends |-> << >>, i |-> 0, cur |-> 0, lastErr |-> "nil",
     cancelled |-> FALSE, attempts |-> << >>, upstream |-> << >>,
     resp |-> << >>]

\* The handler has returned after answering the caller with rs (nothing
\* when rs is empty); its locals are gone.
Done(rs) == [IdleReq EXCEPT !.pc = "done", !.resp = rs]

\* The loop bound without the clip to len(backends).
AttemptBound_NoClip(r) == maxAttempts

\* The loop bound of proxyWithModel: maxAttempts clipped to len(backends).
AttemptBound(r) ==
    IF maxAttempts > Len(req[r].backends) THEN Len(req[r].backends)
    ELSE maxAttempts

\* A new inbound request reaches proxyWithModel.
Accept(r) ==
    /\ req[r].pc \in {"idle", "done"}
    /\ accepted < MaxRequests
    /\ accepted' = accepted + 1
    /\ req' = [req EXCEPT ![r] = [IdleReq EXCEPT !.pc = "start"]]
    /\ UNCHANGED <<gnVars, noteVars, sick, cfgVars, lockVars, ioVars, healthVars, current, now, served, anyFailure>>

\* backends := h.lb.GetAllBackends(model); 503 when the list is empty.
ProxyStart(r) ==
    /\ req[r].pc = "start"
    /\ LET bs == GetAllBackends IN
       IF Len(bs) = 0
       THEN req' = [req EXCEPT ![r] =
                        Done(<<[status |-> 503, detail |-> "no backends available"]>>)]
       ELSE req' = [req EXCEPT ![r].pc = "loop", ![r].backends = bs]
    /\ UNCHANGED <<gnVars, noteVars, sick, cfgVars, lockVars, ioVars, healthVars, current, now, accepted, served,
                   anyFailure>>

\* The caller goes away: c.Request.Context() is done from here on.
Cancel(r) ==
    /\ req[r].pc \in {"start", "loop", "inflight"}
    /\ ~req[r].cancelled
    /\ req' = [req EXCEPT ![r].cancelled = TRUE]
    /\ anyFailure' = TRUE
    /\ UNCHANGED <<gnVars, noteVars, sick, cfgVars, lockVars, ioVars, healthVars, current, now, accepted, served>>

\* Loop head with i < maxAttempts and the context done: silent return.
LoopCancelled(r) ==
    /\ req[r].pc = "loop"
    /\ req[r].i < AttemptBound(r)
    /\ req[r].cancelled
    /\ req' = [req EXCEPT ![r] = Done(<< >>)]
    /\ UNCHANGED <<gnVars, noteVars, sick, cfgVars, lockVars, ioVars, healthVars, current, now, accepted, served,
                   anyFailure>>

\* Loop head, http.NewRequestWithContext fails: lastErr = err; continue.
LoopCreateFails(r) ==
    /\ req[r].pc = "loop"
    /\ req[r].i < AttemptBound(r)
    /\ ~req[r].cancelled
    /\ req[r].backends[(req[r].i % Len(req[r].backends)) + 1] \in badEndpoint
    /\ req' = [req EXCEPT ![r].lastErr = "create", ![r].i = req[r].i + 1]
    /\ anyFailure' = TRUE
    /\ UNCHANGED <<gnVars, noteVars, sick, cfgVars, lockVars, ioVars, healthVars, current, now, accepted, served>>

\* Loop head, the outbound call h.client.Do(req) is issued.
LoopSend(r) ==
    /\ req[r].pc = "loop"
    /\ req[r].i < AttemptBound(r)
    /\ ~req[r].cancelled
    /\ LET b == req[r].backends[(req[r].i % Len(req[r].backends)) + 1] IN
       /\ b \notin badEndpoint
       /\ req' = [req EXCEPT ![r].pc = "inflight", ![r].cur = b,
                             ![r].attempts = Append(req[r].attempts, <<req[r].i, b>>)]
    /\ UNCHANGED <<gnVars, noteVars, sick, cfgVars, lockVars, ioVars, healthVars, current, now, accepted, served,
                   anyFailure>>

\* h.client.Do returns err != nil (connection failure, timeout, or the
\* context cancelled under the call): MarkUnhealthy; lastErr = err; continue.
AttemptTransportError(r) ==
    /\ req[r].pc = "inflight"
    /\ failCount[req[r].cur] < MaxFail
    /\ \E e \in {"transport"} \cup (IF req[r].cancelled THEN {"canceled"} ELSE {}) :
          req' = [req EXCEPT ![r].pc = "loop", ![r].lastErr = e,
                             ![r].i = req[r].i + 1]
    /\ MarkUnhealthy(req[r].cur)
    /\ NoteUnhealthy(req[r].cur)
    /\ anyFailure' = TRUE
    /\ UNCHANGED <<gnVars, cfgVars, lockVars, ioVars, current, now, accepted, served>>

\* resp.StatusCode >= 500: MarkUnhealthy; lastErr = status error; continue.
AttemptServerError(r) ==
    /\ req[r].pc = "inflight"
    /\ failCount[req[r].cur] < MaxFail
    /\ req' = [req EXCEPT ![r].pc = "loop", ![r].lastErr = "status5xx",
                          ![r].i = req[r].i + 1]
    /\ MarkUnhealthy(req[r].cur)
    /\ NoteUnhealthy(req[r].cur)
    /\ anyFailure' = TRUE
    /\ UNCHANGED <<gnVars, cfgVars, lockVars, ioVars, current, now, accepted, served>>

\* resp.StatusCode < 500: MarkHealthy, then the response goes to
\* handleStreamResponse (text/event-stream) or handleNormalResponse.
AttemptSuccess(r) ==
    /\ req[r].pc = "inflight"
    /\ \E st \in {200, 400}, sse \in BOOLEAN :
          req' = [req EXCEPT ![r].pc = "relay",
                     ![r].upstream = <<[status |-> st, stream |-> sse,
                                        backend |-> req[r].cur]>>]
    /\ MarkHealthy(req[r].cur)
    /\ served' = Append(served, req[r].cur)
    /\ NoteHealthy({req[r].cur})
    /\ UNCHANGED <<gnVars, noteVars, cfgVars, lockVars, ioVars, current, now, accepted, anyFailure>>

\* handleStreamResponse: the body is copied to the caller under the default
\* status; the handler returns.
RelayStream(r) ==
    /\ req[r].pc = "relay"
    /\ req[r].upstream[1].stream
    /\ req' = [req EXCEPT ![r] = Done(<<[status |-> 200, detail |-> "relayed"]>>)]
    /\ UNCHANGED <<gnVars, noteVars, sick, cfgVars, lockVars, ioVars, healthVars, current, now,
                   accepted, served, anyFailure>>

\* handleNormalResponse: the body is read whole and sent with the backend's
\* status; 500 when reading it fails.
RelayNormal(r) ==
    /\ req[r].pc = "relay"
    /\ ~req[r].upstream[1].stream
    /\ \E readOK \in BOOLEAN :
          req' = [req EXCEPT ![r] =
                     Done(IF readOK
                          THEN <<[status |-> req[r].upstream[1].status,
                                  detail |-> "relayed"]>>
                          ELSE <<[status |-> 500,
                                  detail |-> "failed to read response"]>>)]
    /\ UNCHANGED <<gnVars, noteVars, sick, cfgVars, lockVars, ioVars, healthVars, current, now,
                   accepted, served, anyFailure>>

\* Loop exit: the 503 with lastErr.Error(); a nil lastErr panics there and
\* middleware.Recovery answers 500.
LoopExhausted(r) ==
    /\ req[r].pc = "loop"
    /\ req[r].i >= AttemptBound(r)
    /\ req' = [req EXCEPT ![r] =
                  Done(IF req[r].lastErr = "nil"
                       THEN <<[status |-> 500, detail |-> "internal server error"]>>
                       ELSE <<[status |-> 503, detail |-> req[r].lastErr]>>)]
    /\ UNCHANGED <<gnVars, noteVars, sick, cfgVars, lockVars, ioVars, healthVars, current, now, accepted, served,
                   anyFailure>>

\* ------------------------------------------- handleOpenAIRequest
\* The model name the configuration file holds; Init builds its pool, of
\* whatever size the file gives it.
ConfiguredModel == "gpt"

\* An inbound HTTP request: the length of its body in bytes, whether reading
\* the body fails, and the model field that extractModel finds in it (""
\* when the body is not JSON or has no model field).
NoInbound == [size |-> 0, readErr |-> FALSE, model |-> ""]

BodySizes == {0, maxBodySize - 1, maxBodySize, maxBodySize + 1}

Inbounds ==
    {q \in [size : BodySizes, readErr : BOOLEAN,
            model : {"", ConfiguredModel, "other"}] :
        q.size = 0 => q.model = ""}

\* len(body) after io.ReadAll(io.LimitReader(c.Request.Body, maxBodySize))
LimitRead(size) == IF size > maxBodySize THEN maxBodySize ELSE size

\* A size test that lets a body of exactly maxBodySize bytes through.
TooLarge_Strict(len) == len > maxBodySize

\* int64(len(body)) >= maxBodySize
TooLarge(len) == len >= maxBodySize

extractModel(q) == q.model

\* HasModel that knows every model name.
HasModel_Any(model) == TRUE

\* HasModel: the name is a key of lb.balancers.
HasModel(model) == model = ConfiguredModel

\* A new inbound request enters handleOpenAIRequest.
Receive(r) ==
    /\ req[r].pc \in {"idle", "done"}
    /\ accepted < MaxRequests
    /\ accepted' = accepted + 1
    /\ \E q \in Inbounds : inbound' = [inbound EXCEPT ![r] = q]
    /\ req' = [req EXCEPT ![r] = [IdleReq EXCEPT !.pc = "received"]]
    /\ UNCHANGED <<gnVars, noteVars, sick, cfgVars, lockVars, xf, stream, healthVars,
                   current, now, served, anyFailure>>

\* handleOpenAIRequest up to its call of proxyWithModel: the body is read,
\* measured, the model name extracted and looked up; each failed test
\* answers the caller and returns.
HandleOpenAIRequest(r) ==
    /\ req[r].pc = "received"
    /\ LET q == inbound[r]
           len == LimitRead(q.size)
           model == extractModel(q)
       IN  req' = [req EXCEPT ![r] =
                IF q.readErr
                THEN Done(<<[status |-> 400,
                             detail |-> "failed to read request body"]>>)
                ELSE IF TooLarge(len)
                THEN Done(<<[status |-> 413,
                             detail |-> "request body too large"]>>)
                ELSE IF model = ""
                THEN Done(<<[status |-> 400,
                             detail |-> "model field is required"]>>)
                ELSE IF ~HasModel(model)
                THEN Done(<<[status |-> 400,
                             detail |-> "model is not configured"]>>)
                ELSE [IdleReq EXCEPT !.pc = "start"]]
    /\ UNCHANGED <<gnVars, noteVars, sick, cfgVars, lockVars, ioVars, healthVars,
                   current, now, accepted, served, anyFailure>>

\* --------------------------------------------- GetNext, step by step
IdleCall == [pc |-> "idle", i |-> 0, idx |-> 0]

InProgress(c) == gn[c].pc \in {"add", "read"}

\* History kept beside a return of GetNext: backend b is the latest one
\* returned.
NoteReturned(b) ==
    rets' = IF overlap \/ everUnhealthy THEN <<b>> ELSE Append(rets, b)

\* The record of a call that has returned: its locals are gone, and the
\* caller may call again.
ReturnedCall == IdleCall

\* A fallback that returns the backend probed last.
FallbackBackend_LastProbed(c) == gn[c].idx

\* return balancer.backends[0] after the loop
FallbackBackend(c) == 0

\* An increment that drops the carry out of the low 16 bits.
GetNextCursor_NoCarry(c) ==
    <<current[1], current[2], current[3], (current[4] + 1) % LimbBase>>

\* The value atomic.AddUint64(&balancer.current, 1) stores and returns.
GetNextCursor(c) == CursorInc(current)

\* Entry of GetNext: the pool is looked up; nil for an empty pool.
GetNextBegin(c) ==
    /\ gn[c].pc = "idle"
    /\ calls < MaxCalls
    /\ calls' = calls + 1
    /\ gn' = [gn EXCEPT ![c] = IF n = 0 THEN ReturnedCall ELSE [IdleCall EXCEPT !.pc = "add"]]
    /\ stable' = [stable EXCEPT ![c] = {b \in Backends : healthy[b]}]
    /\ sick' = [sick EXCEPT ![c] = (n > 0 /\ \A b \in Backends : ~healthy[b])]
    /\ overlap' = (overlap \/ (n > 0 /\ \E d \in Callers \ {c} : InProgress(d)))
    /\ UNCHANGED <<cfgVars, lockVars, ioVars, healthVars, current, now, reqVars, rets,
                   everUnhealthy, wrapped, marks>>

\* idx := atomic.AddUint64(&balancer.current, 1) % uint64(n)
GetNextAdd(c) ==
    /\ gn[c].pc = "add"
    /\ current' = GetNextCursor(c)
    /\ gn' = [gn EXCEPT ![c].pc = "read",
                        ![c].idx = CursorMod(GetNextCursor(c), n)]
    /\ wrapped' = (wrapped \/ current = TopCursor)
    /\ UNCHANGED <<cfgVars, lockVars, ioVars, healthVars, now, reqVars, calls, rets, overlap, marks, noteVars, sick>>

\* healthy := backend.Healthy under the read lock; return the backend when
\* healthy, else the next iteration, and backends[0] after n iterations.
GetNextRead(c) ==
    /\ gn[c].pc = "read"
    /\ IF healthy[gn[c].idx]
       THEN /\ gn' = [gn EXCEPT ![c] = ReturnedCall]
            /\ NoteReturned(gn[c].idx)
            /\ stable' = [stable EXCEPT ![c] = {}]
            /\ sick' = [sick EXCEPT ![c] = FALSE]
       ELSE IF gn[c].i + 1 < n
       THEN /\ gn' = [gn EXCEPT ![c].pc = "add", ![c].i = gn[c].i + 1]
            /\ rets' = rets
            /\ stable' = stable
            /\ sick' = sick
       ELSE /\ gn' = [gn EXCEPT ![c] = ReturnedCall]
            /\ NoteReturned(FallbackBackend(c))
            /\ stable' = [stable EXCEPT ![c] = {}]
            /\ sick' = [sick EXCEPT ![c] = FALSE]
    /\ UNCHANGED <<cfgVars, lockVars, ioVars, healthVars, current, now, reqVars, calls, overlap,
                   wrapped, marks, everUnhealthy>>

\* Direct calls of the other operations of the load balancer.
LBMarkUnhealthy(b) ==
    /\ b \in Backends
    /\ marks < MaxMarks
    /\ failCount[b] < MaxFail
    /\ marks' = marks + 1
    /\ MarkUnhealthy(b)
    /\ NoteUnhealthy(b)
    /\ UNCHANGED <<cfgVars, lockVars, ioVars, current, now, reqVars, gn, calls, rets, overlap,
                   wrapped>>

LBMarkHealthy(b) ==
    /\ b \in Backends
    /\ marks < MaxMarks
    /\ marks' = marks + 1
    /\ MarkHealthy(b)
    /\ NoteHealthy({b})
    /\ UNCHANGED <<cfgVars, lockVars, ioVars, current, now, reqVars, gn, calls, rets, overlap,
                   wrapped, noteVars>>

\* ------------------------------------ the operations and their locks
\* The goroutine of StartHealthCheck; the others serve one inbound request
\* each.
Sweeper == 0
Tasks == Requests \cup {Sweeper}

\* A sync.RWMutex nobody is in: w is the writer between its call of Lock and
\* its Unlock, r the readers between RLock and RUnlock.
FreeLock == [w |-> {}, r |-> {}]

\* A goroutine outside the load balancer.
IdleTask == [op |-> "none", pc |-> "idle", b |-> 0, i |-> 0]

\* RLock returns once no writer is in Lock.
CanRLock(l) == l.w = {}

\* Lock shuts new readers out once no other writer is in,
CanLock(l) == l.w = {}

\* and returns when the readers that were in have left.
Drained(l) == l.r = {}

\* What the steps of this section leave alone.
lockFrame == <<cfgVars, ioVars, reqVars, gn, rets, overlap, now>>

\* A request goroutine enters an operation of the load balancer, whose
\* first statement is lb.mu.RLock().
Enter(t, op) ==
    /\ t # Sweeper
    /\ task[t].pc = "idle"
    /\ CanRLock(locks.glob)
    /\ locks' = [locks EXCEPT !.glob.r = @ \cup {t}]
    /\ task' = [task EXCEPT ![t] = [IdleTask EXCEPT !.op = op, !.pc = "found"]]

\* The calls of GetNext, MarkUnhealthy and MarkHealthy, which change what
\* the pool holds, are MaxMarks at most in one behaviour.
Budget == calls + marks < MaxMarks

CallGetNext(t) ==
    /\ Budget
    /\ calls' = calls + 1
    /\ Enter(t, "GetNext")
    /\ UNCHANGED <<lockFrame, healthVars, noteVars, sick, current, wrapped, marks>>

CallGetAllBackends(t) ==
    /\ Enter(t, "GetAllBackends")
    /\ UNCHANGED <<lockFrame, healthVars, noteVars, sick, current, wrapped, marks, calls>>

CallHasModel(t) ==
    /\ Enter(t, "HasModel")
    /\ UNCHANGED <<lockFrame, healthVars, noteVars, sick, current, wrapped, marks, calls>>

CallMarkUnhealthy(t) ==
    /\ n > 0
    /\ Budget
    /\ marks' = marks + 1
    /\ Enter(t, "MarkUnhealthy")
    /\ UNCHANGED <<lockFrame, healthVars, noteVars, sick, current, wrapped, calls>>

CallMarkHealthy(t) ==
    /\ n > 0
    /\ Budget
    /\ marks' = marks + 1
    /\ Enter(t, "MarkHealthy")
    /\ UNCHANGED <<lockFrame, healthVars, noteVars, sick, current, wrapped, calls>>

\* case <-ticker.C: the recovery goroutine starts a pass with lb.mu.RLock().
SweepWakes ==
    /\ task[Sweeper].pc = "idle"
    /\ CanRLock(locks.glob)
    /\ locks' = [locks EXCEPT !.glob.r = @ \cup {Sweeper}]
    /\ task' = [task EXCEPT ![Sweeper] = [IdleTask EXCEPT !.op = "sweep", !.pc = "found"]]
    /\ UNCHANGED <<lockFrame, healthVars, noteVars, sick, current, wrapped, marks, calls>>

\* An operation that defers lb.mu.RUnlock() to its return.
GlobalReadersAfterLookup_Deferred(t) ==
    IF task[t].op \in {"MarkUnhealthy", "MarkHealthy"} THEN locks.glob.r
    ELSE locks.glob.r \ {t}

\* lb.mu.RUnlock() once lb.balancers has been read (HasModel: on return).
GlobalReadersAfterLookup(t) == locks.glob.r \ {t}

\* A MarkUnhealthy and MarkHealthy that write without balancer.mu.Lock().
AfterLookup_MarksUnlocked(t) ==
    IF task[t].op \in {"HasModel", "GetAllBackends"} THEN "idle"
    ELSE IF task[t].op = "GetNext" THEN (IF n = 0 THEN "idle" ELSE "add")
    ELSE IF task[t].op = "sweep" THEN "lock"
    ELSE "locked"

\* Where an operation goes once lb.mu is released: HasModel and
\* GetAllBackends take no pool lock and return, GetNext returns nil for an
\* empty pool and probes otherwise, the marks and the sweep call
\* balancer.mu.Lock().
AfterLookup(t) ==
    IF task[t].op \in {"HasModel", "GetAllBackends"} THEN "idle"
    ELSE IF task[t].op = "GetNext" THEN (IF n = 0 THEN "idle" ELSE "add")
    ELSE "lock"

LookupRUnlock(t) ==
    /\ task[t].pc = "found"
    /\ locks' = [locks EXCEPT !.glob.r = GlobalReadersAfterLookup(t)]
    /\ task' = [task EXCEPT ![t] = IF AfterLookup(t) = "idle" THEN IdleTask
                                   ELSE [task[t] EXCEPT !.pc = AfterLookup(t)]]
    /\ UNCHANGED <<lockFrame, healthVars, noteVars, sick, current, wrapped, marks, calls>>

\* balancer.mu.Lock() is called: no reader enters from here on.
PoolLock(t) ==
    /\ task[t].pc = "lock"
    /\ CanLock(locks.pool)
    /\ locks' = [locks EXCEPT !.pool.w = {t}]
    /\ task' = [task EXCEPT ![t].pc = "drain"]
    /\ UNCHANGED <<lockFrame, healthVars, noteVars, sick, current, wrapped, marks, calls>>

\* balancer.mu.Lock() returns; a mark is about to use its backend argument.
PoolLockReturns(t) ==
    /\ task[t].pc = "drain"
    /\ Drained(locks.pool)
    /\ \E b \in 0 .. (MaxBackends - 1) :
          /\ IF task[t].op = "sweep" THEN b = 0 ELSE b \in Backends
          /\ task' = [task EXCEPT ![t].pc = "locked", ![t].b = b]
    /\ locks' = locks
    /\ UNCHANGED <<lockFrame, healthVars, noteVars, sick, current, wrapped, marks, calls>>

\* The three assignments of MarkUnhealthy and the deferred Unlock.
MarkUnhealthyLocked(t) ==
    /\ task[t].pc = "locked"
    /\ task[t].op = "MarkUnhealthy"
    /\ MarkUnhealthy(task[t].b)
    /\ NoteUnhealthy(task[t].b)
    /\ locks' = [locks EXCEPT !.pool.w = @ \ {t}]
    /\ task' = [task EXCEPT ![t] = IdleTask]
    /\ UNCHANGED <<lockFrame, current, wrapped, marks, calls>>

\* The three assignments of MarkHealthy and the deferred Unlock.
MarkHealthyLocked(t) ==
    /\ task[t].pc = "locked"
    /\ task[t].op = "MarkHealthy"
    /\ MarkHealthy(task[t].b)
    /\ NoteHealthy({task[t].b})
    /\ locks' = [locks EXCEPT !.pool.w = @ \ {t}]
    /\ task' = [task EXCEPT ![t] = IdleTask]
    /\ UNCHANGED <<lockFrame, noteVars, current, wrapped, marks, calls>>

\* The scan of the pool by the recovery goroutine, and balancer.mu.Unlock().
SweepLocked ==
    /\ task[Sweeper].pc = "locked"
    /\ task[Sweeper].op = "sweep"
    /\ healthy' = [b \in Backends |-> IF Recovered(b) THEN TRUE ELSE healthy[b]]
    /\ NoteHealthy({b \in Backends : Recovered(b)})
    /\ locks' = [locks EXCEPT !.pool.w = @ \ {Sweeper}]
    /\ task' = [task EXCEPT ![Sweeper] = IdleTask]
    /\ UNCHANGED <<lockFrame, noteVars, lastChecked, failCount, current, wrapped,
                   marks, calls>>

\* idx := atomic.AddUint64(&balancer.current, 1) % uint64(n), no lock held.
LockedGetNextAdd(t) ==
    /\ task[t].pc = "add"
    /\ current' = GetNextCursor(t)
    /\ wrapped' = (wrapped \/ current = TopCursor)
    /\ task' = [task EXCEPT ![t].pc = "rlock",
                            ![t].b = CursorMod(GetNextCursor(t), n)]
    /\ locks' = locks
    /\ UNCHANGED <<lockFrame, healthVars, noteVars, sick, marks, calls>>

\* balancer.mu.RLock()
PoolRLock(t) ==
    /\ task[t].pc = "rlock"
    /\ CanRLock(locks.pool)
    /\ locks' = [locks EXCEPT !.pool.r = @ \cup {t}]
    /\ task' = [task EXCEPT ![t].pc = "rlocked"]
    /\ UNCHANGED <<lockFrame, healthVars, noteVars, sick, current, wrapped, marks, calls>>

\* healthy := backend.Healthy; balancer.mu.RUnlock(); then the backend is
\* returned, or the next one probed, or backends[0] returned.
LockedGetNextRead(t) ==
    /\ task[t].pc = "rlocked"
    /\ locks' = [locks EXCEPT !.pool.r = @ \ {t}]
    /\ task' = [task EXCEPT ![t] =
                  IF ~healthy[task[t].b] /\ task[t].i + 1 < n
                  THEN [task[t] EXCEPT !.pc = "add", !.i = task[t].i + 1]
                  ELSE IdleTask]
    /\ UNCHANGED <<lockFrame, healthVars, noteVars, sick, current, wrapped, marks, calls>>

\* A goroutine inside an operation takes its next step.
Proceed(t) ==
    \/ LookupRUnlock(t)
    \/ PoolLock(t)
    \/ PoolLockReturns(t)
    \/ MarkUnhealthyLocked(t)
    \/ MarkHealthyLocked(t)
    \/ t = Sweeper /\ SweepLocked
    \/ LockedGetNextAdd(t)
    \/ PoolRLock(t)
    \/ LockedGetNextRead(t)

\* ------------------------------------------------ transformRequestBody
\* The member names, in the order json.Marshal writes the keys of a map.
KeyOrder ==
    <<"chat_template_kwargs", "enable_thinking", "max_completion_tokens",
      "max_tokens", "seed">>

unsupportedParams == <<"chat_template_kwargs", "enable_thinking">>

\* Member values: JSON integer literals below 2^63, as four 16-bit limbs,
\* most significant first.  16, and 2^53 + 1 = 9007199254740993.
NumberLiterals == {<<0, 0, 0, 16>>, <<32, 0, 0, 1>>}

\* Bytes that are not a JSON object.
NotJSON == [object |-> FALSE, members |-> << >>]

\* A request body: a JSON object as its members in the order of the text
\* (a name may occur more than once), or bytes that are not a JSON object.
Bodies ==
    {NotJSON} \cup
    {[object |-> TRUE, members |-> ms] :
        ms \in UNION {[1 .. k -> {<<KeyOrder[i], v>> : i \in 1 .. Len(KeyOrder),
                                                      v \in NumberLiterals}] :
                        k \in 0 .. MaxFields}}

\* The bits of c beyond the 53 that a float64 holds.
ExcessBits(c) ==
    CHOOSE s \in 0 .. 11 :
        c[1] < 32 * 2 ^ s /\ (s = 0 \/ c[1] >= 32 * 2 ^ (s - 1))

\* c + q for a c whose low limb is a multiple of q, q a power of two.
AddLow(c, q) ==
    IF c[4] + q < LimbBase THEN <<c[1], c[2], c[3], c[4] + q>>
    ELSE IF c[3] < LimbBase - 1 THEN <<c[1], c[2], c[3] + 1, 0>>
    ELSE IF c[2] < LimbBase - 1 THEN <<c[1], c[2] + 1, 0, 0>>
    ELSE <<c[1] + 1, 0, 0, 0>>

\* The float64 that json.Unmarshal stores for the integer literal c in a
\* map[string]interface{}: c rounded to 53 significant bits, ties to even.
ToFloat64(c) ==
    LET q == 2 ^ ExcessBits(c)
        low == c[4] % q
        down == <<c[1], c[2], c[3], c[4] - low>>
    IN  IF low = 0 THEN c
        ELSE IF 2 * low < q THEN down
        ELSE IF 2 * low > q THEN AddLow(down, q)
        ELSE IF (c[4] \div q) % 2 = 0 THEN down
        ELSE AddLow(down, q)

\* The value the text gives the member named key: its last occurrence.
LastOf(ms, key) ==
    ms[CHOOSE k \in 1 .. Len(ms) :
          ms[k][1] = key /\ \A j \in (k + 1) .. Len(ms) : ms[j][1] # key][2]

\* json.Unmarshal(body, &data) for data map[string]interface{}
Unmarshal(ms) ==
    [key \in {ms[k][1] : k \in 1 .. Len(ms)} |-> ToFloat64(LastOf(ms, key))]

\* max_tokens becomes max_completion_tokens unless that is present.
RenameLegacy(data) ==
    IF "max_tokens" \in DOMAIN data /\ "max_completion_tokens" \notin DOMAIN data
    THEN [key \in (DOMAIN data \ {"max_tokens"}) \cup {"max_completion_tokens"} |->
             IF key = "max_completion_tokens" THEN data["max_tokens"]
             ELSE data[key]]
    ELSE data

\* A removal that stops after the first unsupported parameter it finds.
StripUnsupported_FirstOnly(data) ==
    IF unsupportedParams[1] \in DOMAIN data
    THEN [key \in DOMAIN data \ {unsupportedParams[1]} |-> data[key]]
    ELSE [key \in DOMAIN data \ {unsupportedParams[2]} |-> data[key]]

\* The loop over unsupportedParams: each one present is deleted.
StripUnsupported(data) ==
    [key \in DOMAIN data \
                {unsupportedParams[i] : i \in 1 .. Len(unsupportedParams)} |->
        data[key]]

\* json.Marshal(data): the members in key order.
Marshal(data) ==
    LET Present(key) == key \in DOMAIN data
        ks == SelectSeq(KeyOrder, Present)
    IN  [i \in 1 .. Len(ks) |-> <<ks[i], data[ks[i]]>>]

transformRequestBody(body) ==
    IF ~body.object THEN body
    ELSE LET data == Unmarshal(body.members)
             out == StripUnsupported(RenameLegacy(data))
         IN  IF out = data THEN body
             ELSE [object |-> TRUE, members |-> Marshal(out)]

NoTransform == [orig |-> NotJSON, body |-> NotJSON, passes |-> 0]

\* transformRequestBody is applied to the body at hand.
ApplyTransform ==
    /\ xf.passes < MaxPasses
    /\ xf' = [xf EXCEPT !.body = transformRequestBody(xf.body),
                        !.passes = xf.passes + 1]
    /\ UNCHANGED <<gnVars, noteVars, sick, cfgVars, lockVars, inbound, stream, healthVars,
                   current, now, reqVars>>

\* ------------------------------------------------ handleStreamResponse
ChunkVals == {1, 2}

NoStream ==
    [pc |-> "idle", body |-> << >>, src |-> << >>, got |-> << >>, buf |-> 0,
     err |-> "nil", out |-> << >>, flushed |-> 0, end |-> ""]

\* The handler has returned; how the relay ended is kept.
StreamDone(e) == [stream EXCEPT !.pc = "done", !.buf = 0, !.end = e]

\* c.Stream finds the caller gone before it calls the step function.
StreamClientGone ==
    /\ stream.pc = "select"
    /\ stream' = StreamDone("gone")
    /\ UNCHANGED <<gnVars, noteVars, sick, cfgVars, lockVars, inbound, xf, healthVars,
                   current, now, reqVars>>

\* n, err := resp.Body.Read(buf): the next chunk, alone or together with
\* io.EOF or a failure; or no bytes and io.EOF or a failure.
StreamRead ==
    /\ stream.pc = "select"
    /\ \/ /\ stream.src # << >>
          /\ \E e \in {"nil", "reset"} \cup
                       (IF Len(stream.src) = 1 THEN {"EOF"} ELSE {}) :
                stream' = [stream EXCEPT !.pc = "write",
                               !.src = Tail(stream.src),
                               !.got = Append(stream.got, Head(stream.src)),
                               !.buf = Head(stream.src),
                               !.err = e]
       \/ /\ stream.src = << >>
          /\ stream' = StreamDone("eof")
       \/ stream' = StreamDone("readerr")
    /\ UNCHANGED <<gnVars, noteVars, sick, cfgVars, lockVars, inbound, xf, healthVars,
                   current, now, reqVars>>

\* w.Write(buf[:n]): the chunk goes out, or the write fails and the step
\* function returns false.
StreamWrite ==
    /\ stream.pc = "write"
    /\ \/ stream' = [stream EXCEPT !.pc = "flush",
                          !.out = Append(stream.out, stream.buf)]
       \/ stream' = StreamDone("writeerr")
    /\ UNCHANGED <<gnVars, noteVars, sick, cfgVars, lockVars, inbound, xf, healthVars,
                   current, now, reqVars>>

\* A step function that returns without flushing.
StreamFlush_Skips ==
    /\ stream.pc = "flush"
    /\ stream' = IF stream.err = "nil"
                 THEN [stream EXCEPT !.pc = "select", !.buf = 0]
                 ELSE StreamDone(IF stream.err = "EOF" THEN "eof" ELSE "readerr")
    /\ UNCHANGED <<gnVars, noteVars, sick, cfgVars, lockVars, inbound, xf, healthVars,
                   current, now, reqVars>>

\* c.Writer.Flush(), then return err == nil: the next turn of c.Stream, or
\* the end of the relay.
StreamFlush ==
    /\ stream.pc = "flush"
    /\ stream' = IF stream.err = "nil"
                 THEN [stream EXCEPT !.pc = "select", !.buf = 0,
                                     !.flushed = Len(stream.out)]
                 ELSE [StreamDone(IF stream.err = "EOF" THEN "eof" ELSE "readerr")
                          EXCEPT !.flushed = Len(stream.out)]
    /\ UNCHANGED <<gnVars, noteVars, sick, cfgVars, lockVars, inbound, xf, healthVars,
                   current, now, reqVars>>

\* ---------------------------------------------------------- specification
Init ==
    /\ n \in 0 .. MaxBackends
    /\ maxAttempts \in 0 .. MaxAttemptsCfg
    /\ badEndpoint \in {{}, {0} \cap (0 .. (n - 1))}
    /\ healthy = [b \in 0 .. (n - 1) |-> TRUE]
    /\ lastChecked = [b \in 0 .. (n - 1) |-> 0]
    /\ failCount = [b \in 0 .. (n - 1) |-> 0]
    /\ current \in CursorStarts
    /\ now = TickInterval
    /\ req = [r \in Requests |-> IdleReq]
    /\ accepted = 0
    /\ served = << >>
    /\ anyFailure = FALSE
    /\ gn = [c \in Callers |-> IdleCall]
    /\ calls = 0
    /\ rets = << >>
    /\ stable = [c \in Callers |-> {}]
    /\ overlap = FALSE
    /\ everUnhealthy = FALSE
    /\ wrapped = FALSE
    /\ marks = 0
    /\ sick = [c \in Callers |-> FALSE]
    /\ inbound = [r \in Requests |-> NoInbound]
    /\ xf = NoTransform
    /\ stream = NoStream
    /\ locks = [glob |-> FreeLock, pool |-> FreeLock]
    /\ task = [t \in Tasks |-> IdleTask]

Next ==
    \/ \E r \in Requests : Accept(r)
    \/ \E r \in Requests : ProxyStart(r)
    \/ \E r \in Requests : Cancel(r)
    \/ \E r \in Requests : LoopCancelled(r)
    \/ \E r \in Requests : LoopCreateFails(r)
    \/ \E r \in Requests : LoopSend(r)
    \/ \E r \in Requests : AttemptTransportError(r)
    \/ \E r \in Requests : AttemptServerError(r)
    \/ \E r \in Requests : AttemptSuccess(r)
    \/ \E r \in Requests : RelayStream(r)
    \/ \E r \in Requests : RelayNormal(r)
    \/ \E r \in Requests : LoopExhausted(r)

Spec == Init /\ [][Next]_vars

\* The load balancer alone, driven through its operations.
InitLB ==
    /\ Init
    /\ maxAttempts = 0
    /\ badEndpoint = {}

NextLB ==
    \/ \E c \in Callers : GetNextBegin(c)
    \/ \E c \in Callers : GetNextAdd(c)
    \/ \E c \in Callers : GetNextRead(c)
    \/ \E b \in 0 .. (MaxBackends - 1) : LBMarkUnhealthy(b)
    \/ \E b \in 0 .. (MaxBackends - 1) : LBMarkHealthy(b)

SpecLB == InitLB /\ [][NextLB]_vars

\* The health fields alone: direct marks, the clock and the recovery sweep.
NextHealth ==
    \/ \E b \in 0 .. (MaxBackends - 1) : LBMarkUnhealthy(b)
    \/ \E b \in 0 .. (MaxBackends - 1) : LBMarkHealthy(b)
    \/ Sweep
    \/ Tick

SpecHealth == InitLB /\ [][NextHealth]_vars

\* The ticker of StartHealthCheck keeps firing and the clock keeps running.
SpecHealthFair == SpecHealth /\ WF_vars(Sweep) /\ WF_vars(Tick)

\* The operations of the load balancer with their locks, goroutine by
\* goroutine, beside the recovery goroutine. The clock stands still: no
\* lock is taken or released on the strength of a time.
InitLock ==
    /\ InitLB
    /\ current = ZeroCursor

NextLock ==
    \/ \E t \in Tasks : CallGetNext(t)
    \/ \E t \in Tasks : CallGetAllBackends(t)
    \/ \E t \in Tasks : CallHasModel(t)
    \/ \E t \in Tasks : CallMarkUnhealthy(t)
    \/ \E t \in Tasks : CallMarkHealthy(t)
    \/ SweepWakes
    \/ \E t \in Tasks : LookupRUnlock(t)
    \/ \E t \in Tasks : PoolLock(t)
    \/ \E t \in Tasks : PoolLockReturns(t)
    \/ \E t \in Tasks : MarkUnhealthyLocked(t)
    \/ \E t \in Tasks : MarkHealthyLocked(t)
    \/ SweepLocked
    \/ \E t \in Tasks : LockedGetNextAdd(t)
    \/ \E t \in Tasks : PoolRLock(t)
    \/ \E t \in Tasks : LockedGetNextRead(t)

SpecLock == InitLock /\ [][NextLock]_vars

\* The Go scheduler lets every goroutine that can run take its next step.
SpecLockFair == SpecLock /\ \A t \in Tasks : WF_vars(Proceed(t))

\* Inbound requests from the entry of handleOpenAIRequest on.
InitFront ==
    /\ Init
    /\ current = ZeroCursor
    /\ badEndpoint = {}

NextFront ==
    \/ \E r \in Requests : Receive(r)
    \/ \E r \in Requests : HandleOpenAIRequest(r)
    \/ \E r \in Requests : ProxyStart(r)
    \/ \E r \in Requests : LoopSend(r)
    \/ \E r \in Requests : AttemptServerError(r)
    \/ \E r \in Requests : AttemptSuccess(r)
    \/ \E r \in Requests : RelayStream(r)
    \/ \E r \in Requests : RelayNormal(r)
    \/ \E r \in Requests : LoopExhausted(r)

SpecFront == InitFront /\ [][NextFront]_vars

\* transformRequestBody alone, over the request bodies of Bodies.
InitTransform ==
    /\ n = 0 /\ maxAttempts = 0 /\ badEndpoint = {}
    /\ healthy = << >> /\ lastChecked = << >> /\ failCount = << >>
    /\ current = ZeroCursor
    /\ now = TickInterval
    /\ req = [r \in Requests |-> IdleReq]
    /\ accepted = 0 /\ served = << >> /\ anyFailure = FALSE
    /\ gn = [c \in Callers |-> IdleCall]
    /\ calls = 0 /\ rets = << >>
    /\ stable = [c \in Callers |-> {}]
    /\ sick = [c \in Callers |-> FALSE]
    /\ overlap = FALSE /\ everUnhealthy = FALSE /\ wrapped = FALSE
    /\ marks = 0
    /\ inbound = [r \in Requests |-> NoInbound]
    /\ stream = NoStream
    /\ locks = [glob |-> FreeLock, pool |-> FreeLock]
    /\ task = [t \in Tasks |-> IdleTask]
    /\ \E b \in Bodies : xf = [orig |-> b, body |-> b, passes |-> 0]

NextTransform == ApplyTransform

SpecTransform == InitTransform /\ [][NextTransform]_vars

\* handleStreamResponse alone, over the bodies a backend may stream.
InitStream ==
    /\ n = 0 /\ maxAttempts = 0 /\ badEndpoint = {}
    /\ healthy = << >> /\ lastChecked = << >> /\ failCount = << >>
    /\ current = ZeroCursor
    /\ now = TickInterval
    /\ req = [r \in Requests |-> IdleReq]
    /\ accepted = 0 /\ served = << >> /\ anyFailure = FALSE
    /\ gn = [c \in Callers |-> IdleCall]
    /\ calls = 0 /\ rets = << >>
    /\ stable = [c \in Callers |-> {}]
    /\ sick = [c \in Callers |-> FALSE]
    /\ overlap = FALSE /\ everUnhealthy = FALSE /\ wrapped = FALSE
    /\ marks = 0
    /\ inbound = [r \in Requests |-> NoInbound]
    /\ xf = NoTransform
    /\ locks = [glob |-> FreeLock, pool |-> FreeLock]
    /\ task = [t \in Tasks |-> IdleTask]
    /\ \E b \in UNION {[1 .. k -> ChunkVals] : k \in 0 .. MaxChunks} :
          stream = [NoStream EXCEPT !.pc = "select", !.body = b, !.src = b]

NextStream ==
    \/ StreamClientGone
    \/ StreamRead
    \/ StreamWrite
    \/ StreamFlush

SpecStream == InitStream /\ [][NextStream]_vars

\* ------------------------------------------------------------- properties
Failures == {"transport", "canceled", "status5xx"}

\* The step of request r in which an outbound attempt ends in failure.
AttemptFails(r) == req[r].pc = "inflight" /\ req'[r].pc = "loop"

\* The step of request r in which an outbound attempt is issued.
AttemptStarts(r) == req[r].pc = "loop" /\ req'[r].pc = "inflight"

\* C1: an attempt that ends in a transport failure or a status >= 500 leaves
\* its backend unhealthy with failCount one higher, in the very step that
\* ends the attempt, and the next attempt of the request goes to a backend
\* other than the ones already tried.
C1_FailedBackendMarkedThenSkipped ==
    [][\A r \in Requests :
        /\ AttemptFails(r) =>
              /\ req'[r].lastErr \in Failures
              /\ ~healthy'[req[r].cur]
              /\ failCount'[req[r].cur] = failCount[req[r].cur] + 1
        /\ (AttemptStarts(r) /\ req[r].attempts # << >>) =>
              \A k \in 1 .. Len(req[r].attempts) :
                  req'[r].cur # req[r].attempts[k][2]]_vars

\* A second attempt is in flight after the first one failed and left its
\* backend unhealthy.
C1_Witness ==
    \E r \in Requests :
        /\ req[r].pc = "inflight"
        /\ Len(req[r].attempts) = 2
        /\ req[r].lastErr = "status5xx"
        /\ ~healthy[req[r].attempts[1][2]]
        /\ failCount[req[r].attempts[1][2]] >= 1

\* The pool order rotated to start at index s.
Rotated(s) == [k \in 1 .. n |-> (s + k - 1) % n]

\* C2: a request issues at most min(max attempts, pool size) outbound
\* attempts, one at a time; the attempt of loop iteration i targets element i
\* of the failover sequence taken at the start of the request, which is the
\* pool order rotated to the cursor; no backend is attempted twice.
C2_AttemptsFollowFailoverSequence ==
    \A r \in Requests :
        LET a == req[r].attempts
            bs == req[r].backends
        IN  /\ Len(a) <= Min(maxAttempts, n)
            /\ bs # << >> => bs = Rotated(CursorMod(current, n))
            /\ \A k \in 1 .. Len(a) :
                  /\ a[k][1] < Min(maxAttempts, n)
                  /\ a[k][2] = bs[a[k][1] + 1]
            /\ \A j, k \in 1 .. Len(a) :
                  j < k => (a[j][1] < a[k][1] /\ a[j][2] # a[k][2])
            /\ req[r].pc = "inflight" =>
                  (a # << >> /\ Last(a)[2] = req[r].cur)

\* Three attempts of one request, over a sequence that does not start at
\* backend 0.
C2_Witness ==
    \E r \in Requests :
        /\ Len(req[r].attempts) = 3
        /\ req[r].backends[1] # 0
        /\ req[r].attempts[3][2] = req[r].backends[3]

\* The step of request r in which its retry loop ends and no attempt has
\* succeeded.
LoopEndsWithoutSuccess(r) == req[r].pc = "loop" /\ req'[r].pc = "done"

\* C3: whenever the retry loop ends without a successful attempt, the caller
\* gets exactly one response, a 503 that carries the last failure.
C3_ExhaustionGives503 ==
    [][\A r \in Requests :
        LoopEndsWithoutSuccess(r) =>
            /\ Len(req'[r].resp) = 1
            /\ req'[r].resp[1].status = 503
            /\ req[r].lastErr # "nil"
            /\ req'[r].resp[1].detail = req[r].lastErr]_vars

\* The steps of request r that its cancellation brings about: the caller
\* cancelling, the silent return at the loop head, and the outbound call
\* coming back with the context's error.
CancellationStep(r) ==
    \/ ~req[r].cancelled /\ req'[r].cancelled
    \/ req[r].cancelled /\ req[r].pc = "loop" /\ req'[r].pc = "done"
          /\ req[r].i < AttemptBound(r)
    \/ req[r].cancelled /\ AttemptFails(r) /\ req'[r].lastErr = "canceled"

\* C4: no step that the cancellation of a request brings about changes a
\* backend's healthy, lastChecked or failCount.
C4_CancellationLeavesHealthAlone ==
    [][\A r \in Requests : CancellationStep(r) => UNCHANGED healthVars]_vars

\* The step of request r in which an attempt ends with a status below 500.
AttemptSucceeds(r) == req[r].pc = "inflight" /\ req'[r].pc = "relay"

\* C5: an attempt answered with a status below 500 marks its backend healthy
\* with failCount 0 and hands that response to the relay; from then on the
\* request issues no attempt and ends once the relay has answered the caller.
C5_SuccessEndsTheLoop ==
    [][\A r \in Requests :
        /\ AttemptSucceeds(r) =>
              /\ healthy'[req[r].cur]
              /\ failCount'[req[r].cur] = 0
              /\ req'[r].upstream[1].backend = req[r].cur
              /\ req'[r].attempts = req[r].attempts
        /\ req[r].pc = "relay" =>
              /\ req'[r].pc \in {"relay", "done"}
              /\ req'[r].pc = "relay" => req'[r] = req[r]
              /\ req'[r].pc = "done" =>
                    /\ Len(req'[r].resp) = 1
                    /\ req'[r].resp[1].detail = "relayed" =>
                          req'[r].resp[1].status \in
                              {req[r].upstream[1].status, 200}
        /\ req[r].pc = "done" =>
              (req'[r] = req[r] \/ req'[r].pc = "start")]_vars

\* A request answered with a 4xx by the second backend it tried, in a pool
\* of three with three attempts allowed: the response is with the relay and
\* the third backend is not tried.
C5_Witness ==
    \E r \in Requests :
        /\ req[r].pc = "relay"
        /\ n = 3 /\ maxAttempts = 3
        /\ Len(req[r].attempts) = 2
        /\ req[r].upstream[1].status = 400
        /\ req[r].upstream[1].backend = req[r].attempts[2][2]
        /\ healthy[req[r].attempts[2][2]]
        /\ failCount[req[r].attempts[2][2]] = 0

\* Every GetNext call so far ran alone and found every backend healthy.
SequentialAllHealthy == n >= 1 /\ ~everUnhealthy /\ ~overlap

\* Successive GetNext calls return successive backends of the pool, so any
\* n consecutive calls return n different backends.
FixedCyclicOrder ==
    /\ \A j \in 1 .. Len(rets) - 1 : rets[j + 1] = (rets[j] + 1) % n
    /\ \A j \in 1 .. Len(rets) - n + 1 :
          Cardinality({rets[k] : k \in j .. j + n - 1}) = n

\* C6 as stated: with all backends healthy, from any cursor value, any N
\* consecutive GetNext calls return each backend once, in one cyclic order.
C6_AnyCursorVisitsEachOnce == SequentialAllHealthy => FixedCyclicOrder

\* 2^64 is a multiple of n: the wrap of the cursor keeps the rotation.
WrapKeepsRotation == CursorMod(TopCursor, n) = n - 1

\* C6 (amended): with all backends healthy, any N consecutive GetNext calls
\* return each backend once, in one cyclic order, provided the cursor does
\* not wrap from 2^64 - 1 to 0 during them or N divides 2^64.
C6_VisitsEachOnceWithoutWrap ==
    (SequentialAllHealthy /\ (~wrapped \/ WrapKeepsRotation)) => FixedCyclicOrder

\* Three calls, one after the other, on a healthy pool of three with a
\* fresh cursor.
C6_Witness ==
    /\ n = 3
    /\ SequentialAllHealthy
    /\ ~wrapped
    /\ rets = <<1, 2, 0>>

\* The step in which the call of caller c returns a backend.
Returns(c) == gn[c].pc = "read" /\ gn'[c].pc = "idle"

\* C7: GetNext does not return an unhealthy backend when some backend of the
\* pool was healthy from the start of the call to its return, whatever else
\* runs at the same time.
C7_NeverUnhealthyWhileOneHealthy ==
    [][\A c \in Callers :
        (Returns(c) /\ stable[c] # {}) => healthy[Last(rets')]]_vars

C9_RoundRobinAcrossRequests ==
    (n >= 2 /\ ~anyFailure) =>
        \A j \in 1 .. Len(served) - 1 : served[j + 1] = (served[j] + 1) % n

\* C10: the list GetAllBackends hands to a request holds only backends that
\* are flagged healthy at that moment.
C10_OnlyHealthyBackendsHandedOut ==
    [][\A r \in Requests :
        (req[r].pc = "start" /\ req'[r].pc = "loop") =>
            \A k \in 1 .. Len(req'[r].backends) :
                healthy[req'[r].backends[k]]]_vars

\* C11: a model configured with zero backends never gets as far as a
\* request: no request is handed to proxyWithModel for a model that the load
\* balancer knows while the pool of that model is empty.
C11_EmptyPoolNeverKnown ==
    \A r \in Requests :
        (req[r].pc = "start" /\ HasModel(inbound[r].model)) => n > 0

\* The last value the clock takes.
ClockEnd == (MaxTime \div TickInterval) * TickInterval

\* Backend b is unhealthy after k marks, and the clock will run for more than
\* the recovery window past its lastChecked.
Ailing(b, k) ==
    IF b \in Backends
    THEN /\ ~healthy[b]
         /\ marks = k
         /\ lastChecked[b] + defaultRecoveryTimeout < ClockEnd
    ELSE FALSE

\* Backend b is healthy, or has been marked since the k-th mark.
Mended(b, k) == IF b \in Backends THEN healthy[b] \/ marks # k ELSE TRUE

\* C12: with the sweep's ticker firing again and again, a backend that is
\* unhealthy and is not marked again is healthy at some later moment, as soon
\* as more than defaultRecoveryTimeout has passed since its lastChecked.
C12_SweepRecoversUntouchedBackend ==
    \A b \in 0 .. (MaxBackends - 1) : \A k \in 0 .. MaxMarks :
        Ailing(b, k) ~> Mended(b, k)

\* A backend that failed once is healthy again, its failure still counted,
\* more than the recovery window after it was marked.
C12_Witness ==
    \E b \in Backends :
        /\ healthy[b]
        /\ failCount[b] = 1
        /\ now - lastChecked[b] > defaultRecoveryTimeout

\* C13: a pass of the sweep leaves every failCount as it was, and a failCount
\* goes back to 0 only in a MarkHealthy of its backend.
C13_SweepLeavesFailCountAlone ==
    [][/\ marks' = marks => failCount' = failCount
       /\ \A b \in Backends :
             (failCount[b] > 0 /\ failCount'[b] = 0) =>
                 /\ marks' = marks + 1
                 /\ healthy'[b]
                 /\ lastChecked'[b] = now]_vars

\* A backend that failed twice has been recovered by the sweep and still
\* counts two failures.
C13_Witness ==
    \E b \in Backends :
        /\ healthy[b]
        /\ failCount[b] = 2
        /\ lastChecked[b] > 0

\* The inbound requests that handleOpenAIRequest rejects as the caller's
\* fault.
ClientError(q) ==
    \/ q.readErr
    \/ q.size >= maxBodySize
    \/ q.model = ""
    \/ q.model # ConfiguredModel

\* The step in which handleOpenAIRequest has finished looking at request r.
Examined(r) == req[r].pc = "received" /\ req'[r].pc # "received"

\* C14: a request with an unreadable body, a body at or above the size cap,
\* no model field or a model that is not configured is answered with a 4xx
\* in the step that examines it; no outbound call is made for it and no
\* backend's healthy, lastChecked or failCount changes.
C14_ClientErrorsTouchNothing ==
    [][\A r \in Requests :
        /\ (Examined(r) /\ ClientError(inbound[r])) =>
              /\ req'[r].pc = "done"
              /\ Len(req'[r].resp) = 1
              /\ req'[r].resp[1].status \in 400 .. 499
              /\ req'[r].attempts = << >>
              /\ UNCHANGED healthVars
        /\ ClientError(inbound'[r]) =>
              req'[r].pc \in {"idle", "received", "done"}]_vars

\* A request for a model that is not configured has been answered with a
\* 400 while the configured model has backends.
C14_Witness ==
    \E r \in Requests :
        /\ n >= 1
        /\ inbound[r].model = "other"
        /\ inbound[r].size = maxBodySize - 1
        /\ ~inbound[r].readErr
        /\ req[r].pc = "done"
        /\ req[r].resp[1].status = 400

\* C15: a body of maxBodySize bytes or more is answered with a 413 whatever
\* its model field is, with no outbound call and no change of a backend's
\* health fields; a body of maxBodySize - 1 bytes is not answered with a 413.
C15_SizeCapComesFirst ==
    [][\A r \in Requests :
        (Examined(r) /\ ~inbound[r].readErr) =>
            /\ inbound[r].size >= maxBodySize =>
                  /\ req'[r].pc = "done"
                  /\ req'[r].resp[1].status = 413
                  /\ req'[r].attempts = << >>
                  /\ UNCHANGED healthVars
            /\ inbound[r].size = maxBodySize - 1 =>
                  (req'[r].pc = "done" => req'[r].resp[1].status # 413)]_vars

\* A body of exactly maxBodySize bytes that names the configured model has
\* been answered with a 413.
C15_Witness ==
    \E r \in Requests :
        /\ inbound[r].size = maxBodySize
        /\ inbound[r].model = ConfiguredModel
        /\ ~inbound[r].readErr
        /\ req[r].pc = "done"
        /\ req[r].resp[1].status = 413

\* C16: transformRequestBody applied to its own output changes nothing.
C16_TransformIdempotent ==
    [][xf.passes >= 1 => xf'.body = xf.body]_vars

\* The member names of a request body.
NamesOf(body) == {body.members[k][1] : k \in 1 .. Len(body.members)}

\* A body with both token-limit fields and an unsupported parameter has been
\* rewritten by the first pass and has gone through a second one.
C16_Witness ==
    /\ xf.passes = 2
    /\ xf.body # xf.orig
    /\ {"max_tokens", "max_completion_tokens", "enable_thinking"} \subseteq
           NamesOf(xf.orig)

\* C17: for a JSON object, the output has max_completion_tokens with the
\* value of max_tokens and no max_tokens when the input had max_tokens and
\* no max_completion_tokens, has no unsupported parameter, and holds every
\* other member of the input with the value the input gives it.
C17_TransformKeepsTheRest ==
    (xf.passes = 1 /\ xf.orig.object) =>
        LET in == xf.orig
            out == xf.body
            denied == {unsupportedParams[i] : i \in 1 .. Len(unsupportedParams)}
            renamed == "max_tokens" \in NamesOf(in)
                          /\ "max_completion_tokens" \notin NamesOf(in)
        IN  /\ renamed =>
                  /\ "max_completion_tokens" \in NamesOf(out)
                  /\ "max_tokens" \notin NamesOf(out)
                  /\ LastOf(out.members, "max_completion_tokens") =
                         LastOf(in.members, "max_tokens")
            /\ NamesOf(out) \cap denied = {}
            /\ \A key \in NamesOf(in) \
                            (denied \cup (IF renamed THEN {"max_tokens"} ELSE {})) :
                  /\ key \in NamesOf(out)
                  /\ LastOf(out.members, key) = LastOf(in.members, key)

\* The chunks of s up to the k-th.
Prefix(s, k) == [j \in 1 .. k |-> s[j]]

\* What is written is a prefix of what is read, and each chunk is written
\* and flushed before the next read.
StreamInOrder ==
    /\ Len(stream.out) <= Len(stream.got)
    /\ stream.out = Prefix(stream.got, Len(stream.out))
    /\ stream.got = Prefix(stream.body, Len(stream.got))
    /\ stream.pc = "select" =>
          (stream.out = stream.got /\ stream.flushed = Len(stream.out))

\* C18 as stated: what is written is at every moment a prefix of what is
\* read, each chunk written and flushed before the next read, and the relay
\* ends at end-of-stream with the whole body delivered or on the first
\* failed write.
C18_StreamEndsOnEofOrWriteFailure ==
    /\ StreamInOrder
    /\ stream.pc = "done" =>
          \/ stream.end = "eof" /\ stream.out = stream.body
          \/ stream.end = "writeerr"

\* C18 (amended): as stated, and the relay also ends on the first failed
\* read from the backend and when the caller has gone away, with everything
\* read until then delivered and flushed.
C18_StreamEndsWithAllReadDelivered ==
    /\ StreamInOrder
    /\ stream.pc = "done" =>
          \/ stream.end = "eof" /\ stream.out = stream.body
          \/ stream.end = "writeerr"
                /\ stream.out = Prefix(stream.got, Len(stream.got) - 1)
          \/ stream.end \in {"readerr", "gone"}
                /\ stream.out = stream.got
                /\ stream.flushed = Len(stream.out)

\* A body of two different chunks has been relayed to its end.
C18_Witness ==
    /\ stream.pc = "done"
    /\ stream.end = "eof"
    /\ stream.body = <<1, 2>>
    /\ stream.out = <<1, 2>>
    /\ stream.flushed = 2

\* The step of caller c that advances the cursor.
Advances(c) == gn[c].pc = "add" /\ gn'[c].pc = "read"

\* C19 as stated: a call of GetNext advances the cursor once, whatever the
\* health of the backends.
C19_OneAdvancePerCall ==
    [][\A c \in Callers : Advances(c) => gn[c].i = 0]_vars

\* C19 (amended): a call of GetNext advances the cursor by one for each
\* backend it probes: once when the first backend probed is healthy, once
\* more for each unhealthy backend it passes over, and N times at most.
C19_OneAdvancePerProbe ==
    [][/\ \A c \in Callers :
             /\ Advances(c) =>
                   /\ current' = CursorInc(current)
                   /\ gn'[c].i = gn[c].i
                   /\ gn[c].i < n
             /\ (gn[c].pc = "read" /\ gn'[c].pc = "add") =>
                   /\ ~healthy[gn[c].idx]
                   /\ gn'[c].i = gn[c].i + 1
             /\ (gn[c].pc = "read" /\ healthy[gn[c].idx]) =>
                   gn'[c].pc \in {"read", "idle"}
       /\ current' # current => \E c \in Callers : Advances(c)]_vars

\* A call is at its third probe in a pool of three, having advanced the
\* cursor three times.
C19_Witness ==
    \E c \in Callers :
        /\ n = 3
        /\ gn[c].pc = "read"
        /\ gn[c].i = 2
        /\ calls = 1
        /\ current = <<0, 0, 0, 3>>

\* c - 1 modulo 2^64
CursorDec(c) ==
    IF c[4] > 0 THEN <<c[1], c[2], c[3], c[4] - 1>>
    ELSE IF c[3] > 0 THEN <<c[1], c[2], c[3] - 1, LimbBase - 1>>
    ELSE IF c[2] > 0 THEN <<c[1], c[2] - 1, LimbBase - 1, LimbBase - 1>>
    ELSE IF c[1] > 0 THEN <<c[1] - 1, LimbBase - 1, LimbBase - 1, LimbBase - 1>>
    ELSE TopCursor

RECURSIVE CursorBack(_, _)
CursorBack(c, k) == IF k = 0 THEN c ELSE CursorBack(CursorDec(c), k - 1)

\* C20 as stated: with every backend unhealthy, GetNext returns the backend
\* at the position the cursor had before the call advanced it; for calls
\* that run one at a time, that is N advances before the cursor at return.
C20_FallbackIsPreAdvancePosition ==
    [][\A c \in Callers :
        (Returns(c) /\ sick[c] /\ ~overlap) =>
            Last(rets') = CursorMod(CursorBack(current, n), n)]_vars

\* C20 (amended): with every backend of a non-empty pool unhealthy all
\* through the call, GetNext returns a backend, and it is the first backend
\* of the pool.
C20_FallbackIsFirstBackend ==
    [][\A c \in Callers :
        (Returns(c) /\ sick[c]) =>
            /\ rets' # << >>
            /\ Last(rets') \in Backends
            /\ Last(rets') = 0
            /\ ~healthy[Last(rets')]]_vars

\* A call on a pool of two unhealthy backends has probed both and returned
\* the first backend, the cursor having stood at an odd value before.
C20_Witness ==
    \E c \in Callers :
        /\ n = 2
        /\ \A b \in Backends : ~healthy[b]
        /\ marks = 2 /\ calls = 1
        /\ gn[c].pc = "idle"
        /\ rets = <<0>>
        /\ current = TopCursor

\* C21 as stated: lastChecked is the time of the backend's latest change of
\* healthy: a step that flips healthy sets lastChecked to the time of the
\* flip, and no step changes lastChecked without flipping healthy.
C21_LastCheckedIsLastFlip ==
    [][\A b \in Backends :
        /\ healthy'[b] # healthy[b] => lastChecked'[b] = now
        /\ lastChecked'[b] # lastChecked[b] => healthy'[b] # healthy[b]]_vars

\* The health fields of every backend but b stay as they are.
OthersKept(b) ==
    \A o \in Backends \ {b} :
        /\ healthy'[o] = healthy[o]
        /\ lastChecked'[o] = lastChecked[o]
        /\ failCount'[o] = failCount[o]

\* C21 (amended): lastChecked is the time of the backend's latest
\* MarkUnhealthy or MarkHealthy call: each call sets it to the time of the
\* call whether or not healthy flips, and nothing else, the sweep's flip
\* included, changes it.
C21_LastCheckedIsLastMark ==
    [][/\ marks' = marks => lastChecked' = lastChecked
       /\ marks' # marks =>
             \E b \in Backends :
                 /\ lastChecked' = [lastChecked EXCEPT ![b] = now]
                 /\ OthersKept(b)
                 /\ (healthy'[b] # healthy[b] \/ failCount'[b] # failCount[b]
                        \/ healthy'[b])]_vars

\* A backend marked healthy while it was healthy, at a later time than its
\* mark before: lastChecked has moved and healthy has not.
C21_Witness ==
    \E b \in Backends :
        /\ healthy[b]
        /\ failCount[b] = 0
        /\ marks = 2
        /\ lastChecked[b] = 2 * TickInterval
        /\ \A o \in Backends \ {b} : lastChecked[o] = 0

WritesHealth(t, b) ==
    /\ task[t].pc = "locked"
    /\ task[t].op = "sweep" \/ task[t].b = b

\* Task t is about to read backend b's Healthy in GetNext.
ReadsHealth(t, b) == task[t].pc = "rlocked" /\ task[t].b = b

\* Task t holds balancer.mu exclusively, or shared.
HoldsExclusive(t) == locks.pool.w = {t} /\ locks.pool.r = {}
HoldsShared(t) == t \in locks.pool.r /\ task[t].pc = "rlocked"

\* C22: every write of a backend's health fields is made holding the
\* pool's lock exclusively and every read of healthy holding it shared or
\* exclusively, and no two tasks are at an access of one backend's health
\* fields at once with one of them writing.
C22_HealthFieldsUnderPoolLock ==
    \A b \in Backends : \A t \in Tasks :
        /\ WritesHealth(t, b) => HoldsExclusive(t)
        /\ ReadsHealth(t, b) => HoldsShared(t) \/ HoldsExclusive(t)
        /\ \A u \in Tasks \ {t} :
              ~(WritesHealth(t, b) /\ (WritesHealth(u, b) \/ ReadsHealth(u, b)))

\* A request is inside the critical section of MarkUnhealthy while the
\* recovery goroutine waits in Lock for the same pool.
C22_Witness ==
    \E t \in Tasks \ {Sweeper} :
        /\ task[t].op = "MarkUnhealthy"
        /\ task[t].pc = "locked"
        /\ task[Sweeper].pc = "lock"
        /\ \E b \in Backends : ~healthy[b]

\* The locks task t is in: lb.mu, balancer.mu.
InGlobal(t) == t \in locks.glob.r \cup locks.glob.w
InPool(t) == t \in locks.pool.r \cup locks.pool.w

\* Task t waits for a lock it cannot have now.
Blocked(t) ==
    \/ task[t].pc = "lock" /\ ~CanLock(locks.pool)
    \/ task[t].pc = "drain" /\ ~Drained(locks.pool)
    \/ task[t].pc = "rlock" /\ ~CanRLock(locks.pool)

\* No task is in both locks or asks for one while in the other, and of the
\* tasks inside an operation one at least can take a step.
LockOrderKept ==
    /\ \A t \in Tasks :
          /\ ~(InGlobal(t) /\ InPool(t))
          /\ InGlobal(t) => task[t].pc = "found"
          /\ InPool(t) => task[t].pc \in {"drain", "locked", "rlocked"}
    /\ (\E t \in Tasks : task[t].pc # "idle")
          => \E t \in Tasks : task[t].pc # "idle" /\ ~Blocked(t)

\* Task t is, or is no longer, in a lock.
InALock(t) == InGlobal(t) \/ InPool(t)
OutOfLocks(t) == ~InALock(t)

\* C23: no task takes a pool lock while in the global lock, or the
\* reverse; no reachable state is a deadlock; every lock taken is released.
C23_NoNestingNoDeadlock ==
    /\ []LockOrderKept
    /\ \A t \in Tasks : InALock(t) ~> OutOfLocks(t)

\* The recovery goroutine scans the pool under its lock while one request
\* is in the global lock and, when there are two, the other waits for the
\* pool's lock.
C23_Witness ==
    /\ task[Sweeper].pc = "locked"
    /\ \E t \in Tasks \ {Sweeper} : task[t].pc = "found" /\ InGlobal(t)
    /\ \A t \in Tasks \ {Sweeper} : task[t].pc \in {"found", "lock", "rlock"}

TypeOK ==
    /\ n \in 0 .. MaxBackends + 1
    /\ healthy \in [Backends -> BOOLEAN]
    /\ \A b \in Backends : failCount[b] \in 0 .. MaxFail + 1
    /\ \A r \in Requests : req[r].pc \in {"idle", "received", "start", "loop", "inflight", "relay", "done"}
====
